---- MODULE Spec2Model ----
(***************************************************************************)
(* Model of src/2022-01/BancoBlockchain.py (class IoTBlockchainDB): a      *)
(* single-node ledger that pools transactions, seals them into blocks by   *)
(* a brute-force nonce search and persists the blocks in a MongoDB         *)
(* collection.                                                             *)
(*                                                                         *)
(* Representation choices.                                                 *)
(*  - Python None is the integer None == -1 for optional scalars and the   *)
(*    record NoDoc for "find_one found nothing".                           *)
(*  - Numbers that leave the 32-bit range or become fractional (the block  *)
(*    reward 50, 25.0, 12.5 ...; the difficulty 2 ** bits; the hash power  *)
(*    nonce / elapsed) are binary floating point values <<m, e>> standing  *)
(*    for m * 2^e with m odd (or <<0, 0>>), which is what Python's ints    *)
(*    and floats hold exactly for these values.  A third component tells   *)
(*    the int (0) from the float (1): 0 and 0.0 are equal numbers with     *)
(*    different texts, <<0, 0, 0>> and <<0, 0, 1>>.                        *)
(*  - A string is a sequence of tokens (naturals).  SHA-256 is a           *)
(*    stand-in digest of HashBits bits folded over the tokens; a digest    *)
(*    is one token wide (the 64 hex characters of the source).             *)
(*  - time() is the variable now; a nonce search takes a duration drawn    *)
(*    from ElapsedTimes.                                                   *)
(***************************************************************************)
EXTENDS Integers, Sequences, FiniteSets, TLC

VARIABLES
    blocks,        \* self.blocks: the persisted collection, in insertion order
    transactions,  \* self.transactions: the pending pool
    elapsed_time,  \* self.elapsed_time
    hash_power,    \* self.hash_power
    now,           \* the wall clock read by time()
    calls_left,    \* API calls the exploration may still make
    call,          \* the last API call and its arguments
    ret,           \* the outcome of the last API call
    threads,       \* the clients inside generate_next_block: position, locals
    serialised     \* whether the clients' calls are serialised by their caller

vars == <<blocks, transactions, elapsed_time, hash_power, now,
          calls_left, call, ret, threads, serialised>>

----------------------------------------------------------------------------
(* Bounds of the model *)

HashBits == 4          \* width of the stand-in digest (256 in the source)
NonceBits == 2         \* max_nonce = 2 ** NonceBits (32 in the source)
MaxCalls == 4          \* API calls explored by Spec after construction
MaxPool == 2           \* user transactions held in the pending pool
MaxLongCalls == 3      \* API calls explored by SpecLong after construction
MaxIds == 4            \* length of the id lists given to find_merkle_root

(* Program constants, lines 13-17 *)

max_nonce == 2 ^ NonceBits
init_reward == 50
block_reward_rate == 1000
difficulty_bits_block_rate == 100
difficulty_block_rate == 100

(* Inputs *)

None == -1
NoDoc == [none |-> TRUE]
MinerSender == 0       \* '00000000000000000000x0'
MinerRecipient == 1    \* '00000000000000000000x1'
Senders == {2}
Recipients == {3}
Amounts == {1, 2}
ElapsedTimes == {0, 1, 2}

----------------------------------------------------------------------------
(* Numbers m * 2^e *)

\* the number m * 2^e of type k (0 an int, 1 a float)
RECURSIVE Norm(_, _, _)
Norm(m, e, k) ==
    IF m = 0 THEN <<0, 0, k>>
    ELSE IF m % 2 = 0 THEN Norm(m \div 2, e + 1, k)
    ELSE <<m, e, k>>

\* the int n
Num(n) == Norm(n, 0, 0)

\* the float of the integer value n
Float(n) == Norm(n, 0, 1)

\* x / 2: true division gives a float
Half(x) == Norm(x[1], x[2] - 1, 1)

\* x == y of Python: the values compared, whatever the types
Equal(x, y) == x[1] = y[1] /\ x[2] = y[2]

\* 2 ** k for an integer k of either sign
Pow2(k) == <<1, k, IF k < 0 THEN 1 ELSE 0>>

\* x > 1 and x < 1 for x >= 0
GreaterThanOne(x) ==
    IF x[1] = 0 THEN FALSE
    ELSE IF x[2] >= 0 THEN ~(x[1] = 1 /\ x[2] = 0)
    ELSE x[1] > 2 ^ (-x[2])

LessThanOne(x) ==
    IF x[1] = 0 THEN TRUE
    ELSE IF x[2] >= 0 THEN FALSE
    ELSE x[1] < 2 ^ (-x[2])

\* x <= y for x, y >= 0
Leq(x, y) ==
    IF x[1] = 0 THEN TRUE
    ELSE IF y[1] = 0 THEN FALSE
    ELSE IF x[2] >= y[2] THEN x[1] * 2 ^ (x[2] - y[2]) <= y[1]
    ELSE x[1] <= y[1] * 2 ^ (y[2] - x[2])

\* int d < x, for an integer d >= 0 and x = 2 ** k
IntBelow(d, x) ==
    IF x[2] >= 0 THEN d < x[1] * 2 ^ x[2]
    ELSE d = 0

\* float(n / t) for t a power of two
RECURSIVE Log2(_)
Log2(t) == IF t <= 1 THEN 0 ELSE 1 + Log2(t \div 2)

Quotient(n, t) == Norm(n, -Log2(t), 1)

----------------------------------------------------------------------------
(* Strings and hashing *)

\* the token of an optional integer: None is "null"/"None", n is n + 1
Tok(x) == x + 1

\* the tokens of a number m * 2^e: an int and a float of one value are
\* written differently (0 and 0.0)
NumStr(x) == <<x[1], x[2] + 64, x[3]>>

\* str(n) for n >= 0: the decimal digits, most significant first
RECURSIVE Str(_)
Str(n) == IF n < 10 THEN <<n>> ELSE Str(n \div 10) \o <<n % 10>>

\* hashlib.sha256(s).hexdigest() read as an integer in 0 .. 2^HashBits - 1
RECURSIVE Fold(_, _, _)
Fold(s, i, h) ==
    IF i > Len(s) THEN h
    ELSE Fold(s, i + 1, (3 * h + (s[i] % (2 ^ HashBits)) + 1) % (2 ^ HashBits))

Sha256(s) == Fold(s, 1, 5)

\* json.dumps(transaction_info, sort_keys=True): amount, recipient, sender
InfoJson(info) == NumStr(info.amount) \o <<info.recipient, info.sender>>

\* str(transaction_info): sender, recipient, amount
InfoStr(info) == <<info.sender, info.recipient>> \o NumStr(info.amount)

RECURSIVE TxsJson(_, _)
TxsJson(txs, i) ==
    IF i > Len(txs) THEN <<>>
    ELSE <<txs[i].transaction_id>> \o InfoJson(txs[i].transaction_info)
         \o TxsJson(txs, i + 1)

RECURSIVE TxsStr(_, _)
TxsStr(txs, i) ==
    IF i > Len(txs) THEN <<>>
    ELSE <<txs[i].transaction_id>> \o InfoStr(txs[i].transaction_info)
         \o TxsStr(txs, i + 1)

\* json.dumps(block, sort_keys=True): the fields in the order of their keys
BlockJson(b) ==
    NumStr(b.block_reward) \o NumStr(b.difficulty)
    \o <<b.difficulty_bits>> \o NumStr(b.elapsed_time) \o NumStr(b.hash_power)
    \o <<b.height, Tok(b.merkle_root), Tok(b.nonce), b.number_of_transaction,
         b.previous_block, Tok(b.previous_hash), b.timestamp>>
    \o TxsJson(b.transactions, 1)

\* str(block): the fields in the order the block was built (lines 65-79)
BlockStr(b) ==
    <<b.previous_block, b.height, b.timestamp>>
    \o TxsStr(b.transactions, 1)
    \o <<Tok(b.merkle_root), b.number_of_transaction, Tok(b.nonce),
         Tok(b.previous_hash)>>
    \o NumStr(b.block_reward) \o <<b.difficulty_bits>> \o NumStr(b.difficulty)
    \o NumStr(b.elapsed_time) \o NumStr(b.hash_power)

IsInfo(obj) == "sender" \in DOMAIN obj

\* json.dumps(obj, sort_keys=True) of None, a transaction_info or a block
JsonDumps(obj) ==
    IF obj = NoDoc THEN <<Tok(None)>>
    ELSE IF IsInfo(obj) THEN InfoJson(obj)
    ELSE BlockJson(obj)

\* str(obj) of None or a block
PyStr(obj) ==
    IF obj = NoDoc THEN <<Tok(None)>>
    ELSE BlockStr(obj)

\* json.dumps without sort_keys: the fields in the order they were built
hash_json_object_unsorted(json_object) ==
    Sha256(IF json_object = NoDoc THEN <<Tok(None)>>
           ELSE IF IsInfo(json_object) THEN InfoStr(json_object)
           ELSE BlockStr(json_object))

hash_json_object(json_object) == Sha256(JsonDumps(json_object))

\* the pair concatenated right then left
hash_string_pair_swapped(string_1, string_2) ==
    Sha256(<<string_2>> \o <<string_1>>)

hash_string_pair(string_1, string_2) == Sha256(<<string_1>> \o <<string_2>>)

----------------------------------------------------------------------------
(* The store *)

\* the count taken one too high
get_length_plus_one(db) == Len(db) + 1

\* the count that stops at 1
get_length_capped(db) == IF Len(db) > 1 THEN 1 ELSE Len(db)

get_length(db) == Len(db)

\* blocks.find_one({'height': h}, {'_id': 0})
find_one(db, h) ==
    LET hits == {i \in 1 .. Len(db) : db[i].height = h}
    IN  IF hits = {} THEN NoDoc
        ELSE db[CHOOSE i \in hits : \A j \in hits : i <= j]

get_last_block(db) == find_one(db, get_length(db))

get_genesis_block(db) == find_one(db, 1)

get_block(db, height) == find_one(db, height)

----------------------------------------------------------------------------
(* The reward and difficulty schedule *)

\* the halving decided on the height of the block being built
calculate_block_reward_early(db) ==
    LET last_block == get_last_block(db)
    IN  IF last_block = NoDoc THEN Num(init_reward)
        ELSE LET current_reward == last_block.block_reward
                 current_height == last_block.height + 1
             IN  IF GreaterThanOne(current_reward)
                    /\ current_height % block_reward_rate = 0
                 THEN Half(current_reward)
                 ELSE IF LessThanOne(current_reward) THEN Num(0)
                 ELSE current_reward

\* the reward never cut to 0 once it is below 1
calculate_block_reward_no_floor(db) ==
    LET last_block == get_last_block(db)
    IN  IF last_block = NoDoc THEN Num(init_reward)
        ELSE LET current_reward == last_block.block_reward
                 current_height == last_block.height
             IN  IF GreaterThanOne(current_reward)
                    /\ current_height % block_reward_rate = 0
                 THEN Half(current_reward)
                 ELSE current_reward

\* lines 236-252: the reward, once last_block has been fetched
next_block_reward(last_block) ==
    IF last_block = NoDoc THEN Num(init_reward)
    ELSE LET current_reward == last_block.block_reward
             current_height == last_block.height
         IN  IF GreaterThanOne(current_reward)
                /\ current_height % block_reward_rate = 0
             THEN Half(current_reward)
             ELSE IF LessThanOne(current_reward) THEN Num(0)
             ELSE current_reward

calculate_block_reward(db) == next_block_reward(get_last_block(db))

\* the increment decided on the height of the block being built
calculate_difficulty_bits_early(db) ==
    LET last_block == get_last_block(db)
    IN  IF last_block = NoDoc THEN 0
        ELSE IF (last_block.height + 1) % difficulty_bits_block_rate = 0
             THEN last_block.difficulty_bits + 1
             ELSE last_block.difficulty_bits

\* lines 265-278: the bits, once last_block has been fetched
next_difficulty_bits(last_block) ==
    IF last_block = NoDoc THEN 0
    ELSE LET current_difficulty_bits == last_block.difficulty_bits
             current_height == last_block.height
         IN  IF current_height % difficulty_bits_block_rate = 0
             THEN current_difficulty_bits + 1
             ELSE current_difficulty_bits

calculate_difficulty_bits(db) == next_difficulty_bits(get_last_block(db))

\* the doubling decided on the height of the block being built
calculate_difficulty_early(db) ==
    LET last_block == get_last_block(db)
    IN  IF last_block = NoDoc THEN Num(1)
        ELSE IF (last_block.height + 1) % difficulty_block_rate = 0
             THEN Pow2(last_block.difficulty_bits + 1)
             ELSE last_block.difficulty

\* lines 292-307: the difficulty, once last_block has been fetched
next_difficulty(last_block) ==
    IF last_block = NoDoc THEN Num(1)
    ELSE LET current_difficulty_bits == last_block.difficulty_bits
             current_difficulty == last_block.difficulty
             current_height == last_block.height
         IN  IF current_height % difficulty_block_rate = 0
             THEN Pow2(current_difficulty_bits + 1)
             ELSE current_difficulty

calculate_difficulty(db) == next_difficulty(get_last_block(db))

----------------------------------------------------------------------------
(* The Merkle root *)

get_transaction_ids(txs) == [i \in 1 .. Len(txs) |-> txs[i].transaction_id]

\* the loop of lines 132-133: i = 0, 2, 4, ... while i < len - 1 (0-based)
RECURSIVE PairLoop(_, _, _)
PairLoop(ids, i, new_list) ==
    IF i >= Len(ids) THEN new_list
    ELSE PairLoop(ids, i + 2,
                  Append(new_list, hash_string_pair(ids[i], ids[i + 1])))

RECURSIVE find_merkle_root(_)
find_merkle_root(transaction_ids) ==
    IF Len(transaction_ids) = 0 THEN None
    ELSE IF Len(transaction_ids) = 1 THEN transaction_ids[1]
    ELSE LET paired == PairLoop(transaction_ids, 1, <<>>)
             new_list ==
                 IF Len(transaction_ids) % 2 = 1
                 THEN Append(paired,
                             hash_string_pair(
                                 transaction_ids[Len(transaction_ids)],
                                 transaction_ids[Len(transaction_ids)]))
                 ELSE paired
         IN  find_merkle_root(new_list)

----------------------------------------------------------------------------
(* Proof of work *)

\* int(sha256((str(last_block) + str(nonce)).encode()).hexdigest(), 16)
PowDigest(last_block, nonce) == Sha256(PyStr(last_block) \o Str(nonce))

\* target = 2 ** (256 - number_of_bits), a float below 1 when bits > 256
Target(number_of_bits) == Pow2(HashBits - number_of_bits)

RECURSIVE NonceLoop(_, _, _)
NonceLoop(last_block, target, nonce) ==
    IF nonce >= max_nonce THEN None
    ELSE IF IntBelow(PowDigest(last_block, nonce), target) THEN nonce
    ELSE NonceLoop(last_block, target, nonce + 1)

\* the search started at nonce 1
calculate_nonce_from_one(last_block, number_of_bits) ==
    NonceLoop(last_block, Target(number_of_bits), 1)

calculate_nonce(last_block, number_of_bits) ==
    NonceLoop(last_block, Target(number_of_bits), 0)

----------------------------------------------------------------------------
(* The ledger operations, as functions of the object's state              *)
(* self = [blocks, transactions, elapsed_time, hash_power, now]           *)

\* __init__ against a store that already holds the collection db
Constructed(db) ==
    [blocks |-> db, transactions |-> <<>>, elapsed_time |-> Num(0),
     hash_power |-> Num(0), now |-> 0]

\* the amount cut to an integer
add_transaction_int_amount(self, sender, recipient, amount) ==
    LET whole == IF amount[2] < 0
                 THEN Num(amount[1] \div (2 ^ (-amount[2])))
                 ELSE amount
        transaction_info ==
            [sender |-> sender, recipient |-> recipient, amount |-> whole]
        transaction_id == hash_json_object(transaction_info)
    IN  [self EXCEPT !.transactions =
             Append(@, [transaction_id |-> transaction_id,
                        transaction_info |-> transaction_info])]

\* a transaction whose id is already in the pool is not added again
add_transaction_once(self, sender, recipient, amount) ==
    LET transaction_info ==
            [sender |-> sender, recipient |-> recipient, amount |-> amount]
        transaction_id == hash_json_object(transaction_info)
    IN  IF \E i \in 1 .. Len(self.transactions) :
              self.transactions[i].transaction_id = transaction_id
        THEN self
        ELSE [self EXCEPT !.transactions =
                  Append(@, [transaction_id |-> transaction_id,
                             transaction_info |-> transaction_info])]

\* the transaction put at the head of the pool
add_transaction_front(self, sender, recipient, amount) ==
    LET transaction_info ==
            [sender |-> sender, recipient |-> recipient, amount |-> amount]
        transaction_id == hash_json_object(transaction_info)
    IN  [self EXCEPT !.transactions =
             <<[transaction_id |-> transaction_id,
                transaction_info |-> transaction_info]>> \o @]

add_transaction(self, sender, recipient, amount) ==
    LET transaction_info ==
            [sender |-> sender, recipient |-> recipient, amount |-> amount]
        transaction_id == hash_json_object(transaction_info)
    IN  [self EXCEPT !.transactions =
             Append(@, [transaction_id |-> transaction_id,
                        transaction_info |-> transaction_info])]

generate_next_block(self, nonce, previous_hash) ==
    LET block ==
            [previous_block |-> get_length(self.blocks),
             height |-> get_length(self.blocks) + 1,
             timestamp |-> self.now,
             transactions |-> self.transactions,
             merkle_root |->
                 find_merkle_root(get_transaction_ids(self.transactions)),
             number_of_transaction |-> Len(self.transactions),
             nonce |-> nonce,
             previous_hash |->
                 IF previous_hash # None THEN previous_hash
                 ELSE hash_json_object(get_last_block(self.blocks)),
             block_reward |-> calculate_block_reward(self.blocks),
             difficulty_bits |-> calculate_difficulty_bits(self.blocks),
             difficulty |-> calculate_difficulty(self.blocks),
             elapsed_time |-> self.elapsed_time,
             hash_power |-> self.hash_power]
    IN  [self EXCEPT !.transactions = <<>>,
                     !.blocks = Append(@, block)]

generate_genesis_block(self) == generate_next_block(self, 0, None)

reset(self) == generate_genesis_block([self EXCEPT !.blocks = <<>>])

\* The outcome of mine_for_next_block when the nonce search takes `elapsed`:
\* the object's state afterwards, whether the call raised, and the local
\* next_nonce of line 162 (the method itself returns nothing).
mine_for_next_block(self, elapsed) ==
    LET reward_amount == calculate_block_reward(self.blocks)
        last_block == get_last_block(self.blocks)
    IN  IF last_block = NoDoc
        THEN \* line 156: None['difficulty_bits'] raises TypeError
             [self |-> self, raised |-> TRUE, next_nonce |-> None]
        ELSE
        LET last_difficulty_bits == last_block.difficulty_bits
            next_nonce == calculate_nonce(last_block, last_difficulty_bits)
            timed == [self EXCEPT !.elapsed_time = Float(elapsed),
                                  !.now = @ + elapsed]
        IN  IF elapsed > 0 /\ next_nonce = None
            THEN \* line 170: int(None) raises TypeError
                 [self |-> timed, raised |-> TRUE, next_nonce |-> next_nonce]
            ELSE
            LET rated == IF elapsed > 0
                         THEN [timed EXCEPT !.hash_power =
                                   Quotient(next_nonce, elapsed)]
                         ELSE timed
                rewarded == add_transaction(rated, MinerSender,
                                            MinerRecipient, reward_amount)
            IN  [self |-> generate_next_block(rewarded, next_nonce, None),
                 raised |-> FALSE, next_nonce |-> next_nonce]

----------------------------------------------------------------------------
(* The state machine *)

Self ==
    [blocks |-> blocks, transactions |-> transactions,
     elapsed_time |-> elapsed_time, hash_power |-> hash_power, now |-> now]

Becomes(self) ==
    /\ blocks' = self.blocks
    /\ transactions' = self.transactions
    /\ elapsed_time' = self.elapsed_time
    /\ hash_power' = self.hash_power
    /\ now' = self.now

NoCall == [op |-> "__init__", args |-> <<>>]
NoRet == [done |-> FALSE, raised |-> FALSE, value |-> None]
Returned(v) == [done |-> TRUE, raised |-> FALSE, value |-> v]
Raised(v) == [done |-> TRUE, raised |-> TRUE, value |-> v]

\* no client is inside generate_next_block
NoThreads == <<>>

(* The store outlives the object: __init__ (lines 28-42) connects to the   *)
(* collection an earlier run of the program left behind.  Persisted(n) is *)
(* the object after reset() and n - 1 calls of mine_for_next_block() with *)
(* an empty pool and a clock that does not advance.                       *)

RECURSIVE Extend(_, _)
Extend(self, k) ==
    IF k <= 0 \/ Len(self.blocks) = 0 THEN self
    ELSE IF k = 1 THEN mine_for_next_block(self, 0).self
    ELSE LET half == Extend(self, k \div 2)
         IN  IF Len(half.blocks) > 0 THEN Extend(half, k - k \div 2)
             ELSE half

Persisted(n) == Extend(reset(Constructed(<<>>)), n - 1)

PersistedHeights == {100}
LongPersistedHeights == {1000, 2000, 6000}

\* After construction, with `budget` API calls to explore
Start(stores, budget) ==
    /\ blocks \in stores
    /\ transactions = <<>>
    /\ elapsed_time = Num(0)
    /\ hash_power = Num(0)
    /\ now = 0
    /\ calls_left = budget
    /\ call = NoCall
    /\ ret = NoRet
    /\ threads = NoThreads
    /\ serialised = TRUE

\* a fresh store, or the chain of an earlier run
Init ==
    Start({<<>>} \cup {Persisted(n).blocks : n \in PersistedHeights}, MaxCalls)

Reset ==
    /\ calls_left > 0
    /\ Becomes(reset(Self))
    /\ calls_left' = calls_left - 1
    /\ call' = [op |-> "reset", args |-> <<>>]
    /\ ret' = Returned(None)
    /\ UNCHANGED <<threads, serialised>>

AddTransaction ==
    /\ calls_left > 0
    /\ Len(transactions) < MaxPool
    /\ \E sender \in Senders, recipient \in Recipients, amount \in Amounts :
          /\ Becomes(add_transaction(Self, sender, recipient, Num(amount)))
          /\ call' = [op |-> "add_transaction",
                      args |-> <<sender, recipient, amount>>]
    /\ calls_left' = calls_left - 1
    /\ ret' = Returned(None)
    /\ UNCHANGED <<threads, serialised>>

Mine ==
    /\ calls_left > 0
    /\ \E elapsed \in ElapsedTimes :
          LET out == mine_for_next_block(Self, elapsed)
          IN  /\ Becomes(out.self)
              /\ call' = [op |-> "mine_for_next_block", args |-> <<elapsed>>]
              /\ ret' = IF out.raised THEN Raised(None) ELSE Returned(None)
    /\ calls_left' = calls_left - 1
    /\ UNCHANGED <<threads, serialised>>

Next == Reset \/ AddTransaction \/ Mine

Spec == Init /\ [][Next]_vars

----------------------------------------------------------------------------
(* The same calls on the long chains of an earlier run *)

InitLong ==
    Start({Persisted(n).blocks : n \in LongPersistedHeights}, MaxLongCalls)

SpecLong == InitLong /\ [][Next]_vars

----------------------------------------------------------------------------
(* Mining without reset on chains seeded with other initial rewards        *)
(*                                                                         *)
(* init_reward is read in one place, the reward of the block written into  *)
(* an empty store (line 237).  Seeded(r, n) is the chain of n blocks the   *)
(* program builds when init_reward is r.                                   *)

Seeded(r, n) ==
    LET first == reset(Constructed(<<>>))
    IN  Extend([first EXCEPT !.blocks[1].block_reward = Num(r)], n - 1)

\* <<init_reward, blocks persisted by the earlier run>>
SeededChains == {<<1, 1000>>, <<2, 2000>>, <<3, 2000>>}

InitSeeded ==
    Start({Seeded(c[1], c[2]).blocks : c \in SeededChains}, MaxLongCalls)

NextMining == AddTransaction \/ Mine

SpecSeeded == InitSeeded /\ [][NextMining]_vars

----------------------------------------------------------------------------
(* calculate_nonce as a function of its arguments *)

Genesis == reset(Constructed(<<>>)).blocks[1]

NonceInputs ==
    {[Genesis EXCEPT !.timestamp = t, !.height = h] : t \in 0 .. 3, h \in 1 .. 4}

InitNonce ==
    /\ blocks = <<>>
    /\ transactions = <<>>
    /\ elapsed_time = Num(0)
    /\ hash_power = Num(0)
    /\ now = 0
    /\ calls_left = 0
    /\ \E last_block \in NonceInputs, number_of_bits \in 0 .. HashBits + 1 :
          call = [op |-> "calculate_nonce",
                  args |-> <<last_block, number_of_bits>>]
    /\ ret = NoRet
    /\ threads = NoThreads
    /\ serialised = TRUE

CallNonce ==
    /\ call.op = "calculate_nonce"
    /\ ~ret.done
    /\ ret' = Returned(calculate_nonce(call.args[1], call.args[2]))
    /\ UNCHANGED <<blocks, transactions, elapsed_time, hash_power, now,
                   calls_left, call, threads, serialised>>

NextNonce == CallNonce

SpecNonce == InitNonce /\ [][NextNonce]_vars

----------------------------------------------------------------------------
(* find_merkle_root as a function of its argument *)

Ids == {1, 2, 3}

IdLists == UNION {[1 .. n -> Ids] : n \in 0 .. MaxIds}

InitMerkle ==
    /\ blocks = <<>>
    /\ transactions = <<>>
    /\ elapsed_time = Num(0)
    /\ hash_power = Num(0)
    /\ now = 0
    /\ calls_left = 0
    /\ \E transaction_ids \in IdLists :
          call = [op |-> "find_merkle_root", args |-> transaction_ids]
    /\ ret = NoRet
    /\ threads = NoThreads
    /\ serialised = TRUE

CallMerkle ==
    /\ call.op = "find_merkle_root"
    /\ ~ret.done
    /\ ret' = Returned(find_merkle_root(call.args))
    /\ UNCHANGED <<blocks, transactions, elapsed_time, hash_power, now,
                   calls_left, call, threads, serialised>>

NextMerkle == CallMerkle

SpecMerkle == InitMerkle /\ [][NextMerkle]_vars

----------------------------------------------------------------------------
(* generate_next_block step by step, for clients that share the store      *)
(*                                                                         *)
(* Each client is an IoTBlockchainDB object of its own (its pool, its      *)
(* elapsed_time and hash_power) connected to the same collection.  A step  *)
(* is one line of lines 65-85 that queries or writes the collection; the   *)
(* lines in between work on the client's locals and go with the step       *)
(* before them.  get_last_block (line 351) is two queries, the             *)
(* count_documents of get_length and then the find_one on that count, and  *)
(* another client's insert can fall between them: each of the lines 73-76  *)
(* is a CountDocuments step followed by the step that finds and uses the   *)
(* block.                                                                  *)

Threads == {1, 2}
ThreadPools ==
    {<<>>} \cup {add_transaction(Constructed(<<>>), sender, recipient,
                                 Num(amount)).transactions :
                     sender \in Senders, recipient \in Recipients,
                     amount \in {1}}
ThreadNonces == {0, 1}
ThreadStores == {<<>>, reset(Constructed(<<>>)).blocks}

\* the dictionary `block` before any of its entries is evaluated
NoBlock ==
    [previous_block |-> None, height |-> None, timestamp |-> None,
     transactions |-> <<>>, merkle_root |-> None,
     number_of_transaction |-> None, nonce |-> None, previous_hash |-> None,
     block_reward |-> Num(0), difficulty_bits |-> None, difficulty |-> Num(0),
     elapsed_time |-> Num(0), hash_power |-> Num(0)]

\* a client about to call generate_next_block(nonce)
Called(pool, nonce) ==
    [pc |-> "called", transactions |-> pool, nonce |-> nonce,
     elapsed_time |-> Num(0), hash_power |-> Num(0), block |-> NoBlock,
     count |-> None]

Running(t) == threads[t].pc \notin {"called", "done"}

InitRace ==
    /\ blocks \in ThreadStores
    /\ transactions = <<>>
    /\ elapsed_time = Num(0)
    /\ hash_power = Num(0)
    /\ now = 0
    /\ calls_left = 0
    /\ call = [op |-> "generate_next_block", args |-> <<>>]
    /\ ret = NoRet
    /\ threads \in [Threads -> {Called(pool, nonce) :
                                   pool \in ThreadPools,
                                   nonce \in ThreadNonces}]
    /\ serialised \in BOOLEAN

\* thread t moves to position pc with the entries `block` of its dictionary
Goes(t, pc, block) ==
    /\ threads' = [threads EXCEPT ![t].pc = pc, ![t].block = block]
    /\ UNCHANGED <<blocks, transactions, elapsed_time, hash_power, now,
                   calls_left, call, ret, serialised>>

\* line 66: "previous_block": self.get_length()
ReadPreviousBlock(t) ==
    /\ threads[t].pc = "called"
    /\ serialised => \A u \in Threads : ~Running(u)
    /\ Goes(t, "line 67",
            [threads[t].block EXCEPT !.previous_block = get_length(blocks)])

\* lines 67-72: 'height': self.get_length() + 1, and the entries taken from
\* the client itself
ReadHeight(t) ==
    /\ threads[t].pc = "line 67"
    /\ Goes(t, "line 73",
            [threads[t].block EXCEPT
                !.height = get_length(blocks) + 1,
                !.timestamp = now,
                !.transactions = threads[t].transactions,
                !.merkle_root =
                    find_merkle_root(
                        get_transaction_ids(threads[t].transactions)),
                !.number_of_transaction = Len(threads[t].transactions),
                !.nonce = threads[t].nonce])

\* the positions at which get_last_block is entered, and where each goes
\* once the documents are counted
CountPositions == {"line 73", "line 74", "line 75", "line 76"}

FindPosition(pc) ==
    CASE pc = "line 73" -> "line 73 find_one"
      [] pc = "line 74" -> "line 74 find_one"
      [] pc = "line 75" -> "line 75 find_one"
      [] pc = "line 76" -> "line 76 find_one"

\* get_last_block, first query: self.get_length() (line 351, line 314)
CountDocuments(t) ==
    /\ threads[t].pc \in CountPositions
    /\ threads' = [threads EXCEPT ![t].pc = FindPosition(threads[t].pc),
                                  ![t].count = get_length(blocks)]
    /\ UNCHANGED <<blocks, transactions, elapsed_time, hash_power, now,
                   calls_left, call, ret, serialised>>

\* line 73: previous_hash or self.hash_json_object(self.get_last_block()),
\* second query of get_last_block
ReadPreviousHash(t) ==
    /\ threads[t].pc = "line 73 find_one"
    /\ Goes(t, "line 74",
            [threads[t].block EXCEPT
                !.previous_hash =
                    hash_json_object(find_one(blocks, threads[t].count))])

\* line 74: 'block_reward': self.calculate_block_reward(), second query
ReadBlockReward(t) ==
    /\ threads[t].pc = "line 74 find_one"
    /\ Goes(t, "line 75",
            [threads[t].block EXCEPT
                !.block_reward =
                    next_block_reward(find_one(blocks, threads[t].count))])

\* line 75: 'difficulty_bits': self.calculate_difficulty_bits(), second
\* query
ReadDifficultyBits(t) ==
    /\ threads[t].pc = "line 75 find_one"
    /\ Goes(t, "line 76",
            [threads[t].block EXCEPT
                !.difficulty_bits =
                    next_difficulty_bits(find_one(blocks, threads[t].count))])

\* lines 76-78: 'difficulty': self.calculate_difficulty(), second query,
\* and the client's elapsed_time and hash_power
ReadDifficulty(t) ==
    /\ threads[t].pc = "line 76 find_one"
    /\ Goes(t, "line 85",
            [threads[t].block EXCEPT
                !.difficulty =
                    next_difficulty(find_one(blocks, threads[t].count)),
                !.elapsed_time = threads[t].elapsed_time,
                !.hash_power = threads[t].hash_power])

\* lines 82-85: self.transactions = []; self.blocks.insert_one(block)
InsertOne(t) ==
    /\ threads[t].pc = "line 85"
    /\ blocks' = Append(blocks, threads[t].block)
    /\ threads' = [threads EXCEPT ![t].pc = "done",
                                  ![t].transactions = <<>>]
    /\ UNCHANGED <<transactions, elapsed_time, hash_power, now,
                   calls_left, call, ret, serialised>>

NextRace ==
    \E t \in Threads :
        \/ ReadPreviousBlock(t)
        \/ ReadHeight(t)
        \/ CountDocuments(t)
        \/ ReadPreviousHash(t)
        \/ ReadBlockReward(t)
        \/ ReadDifficultyBits(t)
        \/ ReadDifficulty(t)
        \/ InsertOne(t)

SpecRace == InitRace /\ [][NextRace]_vars

----------------------------------------------------------------------------
(* Properties *)

Mined == call.op = "mine_for_next_block" /\ ret.done /\ ~ret.raised

\* the same, of the step just taken
MinedNow == call'.op = "mine_for_next_block" /\ ret'.done /\ ~ret'.raised

\* int(sha256(str(pre) + str(nonce))) < 2 ** (HashBits - bits), the exponent
\* of either sign, stated on integers only
MeetsTarget(pre, nonce, bits) ==
    IF bits <= HashBits
    THEN PowDigest(pre, nonce) < 2 ^ (HashBits - bits)
    ELSE PowDigest(pre, nonce) * 2 ^ (bits - HashBits) < 1

(* C1: whenever two blocks that follow one another in the store have the   *)
(* heights h and h + 1, the previous_hash of the second is the SHA-256 of  *)
(* the JSON serialisation of the whole stored record of the first.         *)
ChainLinkage ==
    \A i \in 1 .. Len(blocks) - 1 :
        blocks[i + 1].height = blocks[i].height + 1
            => blocks[i + 1].previous_hash = Sha256(BlockJson(blocks[i]))

\* a block with user transactions was mined on top of the persisted chain
ChainLinkageWitness ==
    /\ Mined
    /\ Len(blocks) > 100
    /\ blocks[Len(blocks)].number_of_transaction > 1
    /\ blocks[Len(blocks)].height = blocks[Len(blocks) - 1].height + 1

(* C2: after reset() the store holds exactly one block, and that block has *)
(* height 1, previous_hash None, nonce 0, difficulty_bits 0, difficulty 1  *)
(* and block_reward init_reward.                                           *)
GenesisAfterReset ==
    call.op = "reset" =>
        /\ Len(blocks) = 1
        /\ blocks[1].height = 1
        /\ blocks[1].previous_hash = None
        /\ blocks[1].nonce = 0
        /\ blocks[1].difficulty_bits = 0
        /\ Equal(blocks[1].difficulty, Num(1))
        /\ Equal(blocks[1].block_reward, Num(init_reward))

(* C3: calculate_nonce returns the least nonce below max_nonce whose       *)
(* digest is below the target, None exactly when no nonce below max_nonce  *)
(* is, and 0 when number_of_bits is 0.                                     *)
LeastNonce ==
    (call.op = "calculate_nonce" /\ ret.done) =>
        LET pre == call.args[1]
            bits == call.args[2]
            good == {n \in 0 .. max_nonce - 1 : MeetsTarget(pre, n, bits)}
        IN  /\ ret.value # None =>
                /\ ret.value \in good
                /\ \A n \in good : ret.value <= n
            /\ ret.value = None <=> good = {}
            /\ bits = 0 => ret.value = 0

\* the search passed over nonce 0 and stopped at a later one
LeastNonceWitness ==
    /\ call.op = "calculate_nonce"
    /\ ret.done
    /\ ret.value > 0
    /\ call.args[2] > 0

(* C4: the block a successful mine_for_next_block() persists carries a     *)
(* nonce whose digest is below the target of the difficulty_bits stored in *)
(* that same block.                                                        *)
MinedNonceMeetsOwnBits ==
    [][MinedNow =>
          LET b == blocks'[Len(blocks')]
          IN  /\ b.nonce # None
              /\ MeetsTarget(blocks[Len(blocks)], b.nonce, b.difficulty_bits)
      ]_vars

(* C5: a mine_for_next_block() whose nonce search finds nothing leaves the *)
(* store and the pending pool as they were, whatever the elapsed time.     *)
NotFoundAborts ==
    [][(/\ call'.op = "mine_for_next_block"
        /\ blocks # <<>>
        /\ calculate_nonce(blocks[Len(blocks)],
                           blocks[Len(blocks)].difficulty_bits) = None)
          => /\ blocks' = blocks
             /\ transactions' = transactions
      ]_vars

(* C6 as stated: the block at height 1 has reward 50, the blocks at the    *)
(* heights 1000 .. 1999 have reward 25, the block at height 2000 has 12.5. *)
RewardHalvesAtMultiple ==
    \A i \in 1 .. Len(blocks) :
        LET h == blocks[i].height
            r == blocks[i].block_reward
        IN  /\ h = 1 => Equal(r, Num(50))
            /\ (1000 <= h /\ h <= 1999) => Equal(r, Num(25))
            /\ h = 2000 => Equal(r, Half(Num(25)))

(* C6 amended: the blocks at the heights 1 .. 1000 have reward 50, those   *)
(* at 1001 .. 2000 have reward 25 and the block at height 2001 has 12.5:   *)
(* the halving takes effect at the block after a multiple of the interval. *)
RewardHalvesAfterMultiple ==
    \A i \in 1 .. Len(blocks) :
        LET h == blocks[i].height
            r == blocks[i].block_reward
        IN  /\ (1 <= h /\ h <= 1000) => Equal(r, Num(50))
            /\ (1001 <= h /\ h <= 2000) => Equal(r, Num(25))
            /\ h = 2001 => Equal(r, Half(Num(25)))

RewardHalvesWitness ==
    /\ Mined
    /\ Len(blocks) >= 2001
    /\ blocks[2001].height = 2001

(* C7 as stated: every block at height h has difficulty_bits = h div 100.  *)
BitsRiseAtMultiple ==
    \A i \in 1 .. Len(blocks) :
        blocks[i].difficulty_bits
            = blocks[i].height \div difficulty_bits_block_rate

(* C7 amended: every block at height h has difficulty_bits                 *)
(* = (h - 1) div 100: 0 for the heights 1 .. 100, 1 for 101 .. 200, and so *)
(* on, rising by exactly 1 at each block after a multiple of the interval. *)
BitsRiseAfterMultiple ==
    \A i \in 1 .. Len(blocks) :
        /\ blocks[i].difficulty_bits
               = (blocks[i].height - 1) \div difficulty_bits_block_rate
        /\ i > 1 =>
               blocks[i].difficulty_bits - blocks[i - 1].difficulty_bits
                   = IF blocks[i - 1].height % difficulty_bits_block_rate = 0
                     THEN 1 ELSE 0

BitsRiseWitness ==
    /\ Mined
    /\ Len(blocks) > 2 * difficulty_bits_block_rate
    /\ blocks[Len(blocks)].difficulty_bits >= 2

(* C8: along a chain the block reward is never negative and never rises    *)
(* from one block to the next, and every block after a block whose reward  *)
(* is below 1 has reward 0.                                                *)
RewardNeverRises ==
    \A i \in 1 .. Len(blocks) :
        /\ blocks[i].block_reward[1] >= 0
        /\ i > 1 => Leq(blocks[i].block_reward, blocks[i - 1].block_reward)
        /\ LessThanOne(blocks[i].block_reward) =>
               \A j \in i + 1 .. Len(blocks) :
                   Equal(blocks[j].block_reward, Num(0))

\* a block with a positive reward below 1 has a successor
RewardNeverRisesWitness ==
    \E i \in 1 .. Len(blocks) - 1 :
        /\ blocks[i].block_reward[1] > 0
        /\ LessThanOne(blocks[i].block_reward)

\* the digest of the concatenation of two digests, left then right
RefPair(left, right) == Sha256(<<left, right>>)

\* one level of the reduction: pair k is (ids[2k-1], ids[2k]), the last
\* element of an odd level paired with itself
RefLevel(ids) ==
    [k \in 1 .. (Len(ids) + 1) \div 2 |->
        RefPair(ids[2 * k - 1],
                ids[IF 2 * k <= Len(ids) THEN 2 * k ELSE 2 * k - 1])]

RECURSIVE RefRoot(_)
RefRoot(ids) ==
    IF ids = <<>> THEN None
    ELSE IF Len(ids) = 1 THEN ids[1]
    ELSE RefRoot(RefLevel(ids))

(* C9: find_merkle_root is the reference reduction: None for no id, the id *)
(* itself for one id, otherwise the levels of ordered pairs with an odd    *)
(* last element paired with itself; root([A,B]) = hp(A,B),                 *)
(* root([A,B,C]) = hp(hp(A,B), hp(C,C)), and root([A,B]) is not            *)
(* root([B,A]) for distinct A and B.                                       *)
MerkleIsReference ==
    (call.op = "find_merkle_root" /\ ret.done) =>
        LET ids == call.args
        IN  /\ ret.value = RefRoot(ids)
            /\ Len(ids) = 0 => ret.value = None
            /\ Len(ids) = 1 => ret.value = ids[1]
            /\ Len(ids) = 2 => ret.value = RefPair(ids[1], ids[2])
            /\ Len(ids) = 3 =>
                   ret.value = RefPair(RefPair(ids[1], ids[2]),
                                       RefPair(ids[3], ids[3]))
            /\ (Len(ids) = 2 /\ ids[1] # ids[2]) =>
                   ret.value # RefPair(ids[2], ids[1])

\* an odd list of three distinct ids was reduced
MerkleIsReferenceWitness ==
    /\ call.op = "find_merkle_root"
    /\ ret.done
    /\ Len(call.args) = 3
    /\ Cardinality({call.args[k] : k \in 1 .. 3}) = 3

(* C10: the heights of the persisted blocks are 1, 2, ..., n in insertion  *)
(* order, n being the number of blocks, and a successful                   *)
(* mine_for_next_block() appends one block, of height n + 1, to the blocks *)
(* that were there.                                                        *)
HeightsContiguous ==
    /\ [](\A i \in 1 .. Len(blocks) : blocks[i].height = i)
    /\ [][MinedNow =>
             /\ Len(blocks') = Len(blocks) + 1
             /\ SubSeq(blocks', 1, Len(blocks)) = blocks
             /\ blocks'[Len(blocks')].height = Len(blocks) + 1
         ]_vars

\* a chain was dropped by reset() and two blocks were mined on the genesis
HeightsContiguousWitness ==
    /\ Mined
    /\ calls_left <= MaxCalls - 3
    /\ Len(blocks) = 3
    /\ blocks[2].timestamp > 0

(* C11: mine_for_next_block() on a store that holds no block returns       *)
(* without an error and persists the genesis block: height 1,              *)
(* difficulty_bits 0, difficulty 1, block_reward init_reward.              *)
MineOnEmptyStore ==
    [][(call'.op = "mine_for_next_block" /\ blocks = <<>>) =>
          /\ ~ret'.raised
          /\ Len(blocks') = 1
          /\ blocks'[1].height = 1
          /\ blocks'[1].difficulty_bits = 0
          /\ Equal(blocks'[1].difficulty, Num(1))
          /\ Equal(blocks'[1].block_reward, Num(init_reward))
      ]_vars

(* C12: after a successful mine_for_next_block() started with the pending  *)
(* pool P, the new block's transactions are P in order followed by one     *)
(* reward transaction, number_of_transaction is |P| + 1, merkle_root is    *)
(* the Merkle root of the transaction ids in that order, and the pool is   *)
(* empty.                                                                  *)
BlockHoldsPoolThenReward ==
    [][MinedNow =>
          LET b == blocks'[Len(blocks')]
              last == b.transactions[Len(b.transactions)]
          IN  /\ Len(b.transactions) = Len(transactions) + 1
              /\ SubSeq(b.transactions, 1, Len(transactions)) = transactions
              /\ last.transaction_info.sender = MinerSender
              /\ last.transaction_info.recipient = MinerRecipient
              /\ last.transaction_id = Sha256(InfoJson(last.transaction_info))
              /\ b.number_of_transaction = Len(transactions) + 1
              /\ b.merkle_root =
                     RefRoot([i \in 1 .. Len(b.transactions) |->
                                 b.transactions[i].transaction_id])
              /\ transactions' = <<>>
      ]_vars

\* a block was mined from a pool of two different user transactions
BlockHoldsPoolThenRewardWitness ==
    /\ Mined
    /\ transactions = <<>>
    /\ blocks[Len(blocks)].number_of_transaction = 3
    /\ blocks[Len(blocks)].transactions[1] # blocks[Len(blocks)].transactions[2]

(* C13: with difficulty_bits_block_rate = difficulty_block_rate, every     *)
(* persisted block of a chain built from reset() has                       *)
(* difficulty = 2 ** difficulty_bits.                                      *)
DifficultyIsPowerOfBits ==
    difficulty_bits_block_rate = difficulty_block_rate =>
        \A i \in 1 .. Len(blocks) :
            Equal(blocks[i].difficulty, Pow2(blocks[i].difficulty_bits))

\* a block was mined right after a multiple of the interval: its bits and
\* its difficulty both moved
DifficultyIsPowerOfBitsWitness ==
    /\ Mined
    /\ Len(blocks) > 1000
    /\ blocks[Len(blocks)].difficulty_bits
           = blocks[Len(blocks) - 1].difficulty_bits + 1
    /\ blocks[Len(blocks)].difficulty # blocks[Len(blocks) - 1].difficulty

\* str() of the candidate record: the block being built without its nonce
\* (height, previous_hash, merkle_root, transactions, difficulty fields)
CandidateStr(b) ==
    <<b.height, Tok(b.previous_hash), Tok(b.merkle_root)>>
    \o TxsStr(b.transactions, 1)
    \o <<b.difficulty_bits>> \o NumStr(b.difficulty)

\* the least nonce below max_nonce that seals the candidate b at `bits`
RECURSIVE CandidateNonce(_, _, _)
CandidateNonce(b, bits, nonce) ==
    IF nonce >= max_nonce THEN None
    ELSE IF IntBelow(Sha256(CandidateStr(b) \o Str(nonce)), Target(bits))
         THEN nonce
    ELSE CandidateNonce(b, bits, nonce + 1)

(* C14: the nonce search of mine_for_next_block() runs over the candidate  *)
(* record of the block being built, so the nonce a successful call stores  *)
(* is the result of the search over that record (at the bits the call      *)
(* searched with) and depends on the pending pool.                         *)
NonceSearchedOnCandidate ==
    [][MinedNow =>
          LET b == blocks'[Len(blocks')]
          IN  b.nonce = CandidateNonce(b, blocks[Len(blocks)].difficulty_bits, 0)
      ]_vars

\* two persisted blocks with the same height and the same previous_hash
TwinBlocks ==
    \E i, j \in 1 .. Len(blocks) :
        /\ i < j
        /\ blocks[i].height = blocks[j].height
        /\ blocks[i].previous_hash = blocks[j].previous_hash

(* C15: when the generate_next_block() calls of the clients of a store are *)
(* serialised by their caller, no two persisted blocks have the same       *)
(* height and the same previous_hash; when the calls interleave (both      *)
(* count the documents before either inserts) such a state is reachable,   *)
(* which is the state TwinBlocksWhenInterleaved.                           *)
NoTwinBlocksWhenSerialised == serialised => ~TwinBlocks

\* both clients ran generate_next_block unserialised and left twin blocks
TwinBlocksWhenInterleaved ==
    /\ ~serialised
    /\ \A t \in Threads : threads[t].pc = "done"
    /\ Len(blocks) >= 3
    /\ TwinBlocks

(* C16: the genesis block written by reset() has no transactions, a None  *)
(* merkle_root, number_of_transaction 0, elapsed_time 0 and hash_power 0,  *)
(* whatever the pending pool and the earlier mining were.                  *)
GenesisHasSeedValues ==
    call.op = "reset" =>
        /\ Len(blocks) = 1
        /\ blocks[1].transactions = <<>>
        /\ blocks[1].merkle_root = None
        /\ blocks[1].number_of_transaction = 0
        /\ Equal(blocks[1].elapsed_time, Num(0))
        /\ Equal(blocks[1].hash_power, Num(0))

(* C17: whatever the initial reward, in a chain mined without reset the    *)
(* block after each multiple of block_reward_rate carries half the reward  *)
(* of the block before it unless the reward has come to 0, and every block *)
(* after a block of reward 0 has reward 0: the reward does not stay at a   *)
(* positive value.                                                         *)
RewardFallsToZero ==
    \A i \in 2 .. Len(blocks) :
        /\ blocks[i - 1].height % block_reward_rate = 0 =>
               \/ Equal(blocks[i].block_reward,
                        Half(blocks[i - 1].block_reward))
               \/ Equal(blocks[i].block_reward, Num(0))
        /\ Equal(blocks[i - 1].block_reward, Num(0)) =>
               Equal(blocks[i].block_reward, Num(0))

(* C18: in every block persisted by mine_for_next_block() the last         *)
(* transaction is the reward transaction, credited to the miner address,   *)
(* and its amount is the block_reward of that block.                       *)
RewardAmountIsBlockReward ==
    \A i \in 2 .. Len(blocks) :
        LET b == blocks[i]
            info == b.transactions[Len(b.transactions)].transaction_info
        IN  /\ Len(b.transactions) >= 1
            /\ info.sender = MinerSender
            /\ info.recipient = MinerRecipient
            /\ Equal(info.amount, b.block_reward)

\* a block was mined right after a multiple of block_reward_rate and pays
\* a fractional reward, half that of the block before it
RewardAmountIsBlockRewardWitness ==
    /\ Mined
    /\ Len(blocks) > 2000
    /\ blocks[Len(blocks)].block_reward[2] < 0
    /\ blocks[Len(blocks)].block_reward
           = Half(blocks[Len(blocks) - 1].block_reward)

\* the transactions of the sequence txs that are not miner rewards
Submitted(txs) ==
    SelectSeq(txs, LAMBDA tx : tx.transaction_info.sender # MinerSender)

\* every submitted transaction the ledger holds, block by block in insertion
\* order and then the pending pool, each as often as it is held
RECURSIVE Held(_, _, _)
Held(db, i, pool) ==
    IF i > Len(db) THEN Submitted(pool)
    ELSE Submitted(db[i].transactions) \o Held(db, i + 1, pool)

(* C19: across add_transaction() and mine_for_next_block() calls (those    *)
(* that find no nonce included) every submitted transaction is held once,  *)
(* in the pending pool or in one persisted block, in submission order:     *)
(* add_transaction appends its transaction to what is held, and            *)
(* mine_for_next_block leaves what is held as it was.                      *)
TransactionsConserved ==
    [][/\ call'.op = "add_transaction" =>
              LET info == [sender |-> call'.args[1],
                           recipient |-> call'.args[2],
                           amount |-> Num(call'.args[3])]
              IN  Held(blocks', 1, transactions')
                      = Append(Held(blocks, 1, transactions),
                               [transaction_id |-> Sha256(InfoJson(info)),
                                transaction_info |-> info])
       /\ call'.op = "mine_for_next_block" =>
              /\ Held(blocks', 1, transactions')
                     = Held(blocks, 1, transactions)
              /\ \/ transactions' = transactions
                 \/ transactions' = <<>>
      ]_vars

\* two submissions were mined into one block and a third one is pending
TransactionsConservedWitness ==
    /\ call.op = "add_transaction"
    /\ Len(transactions) = 1
    /\ Len(blocks) > 1
    /\ Len(blocks[Len(blocks)].transactions) = 3
    /\ Len(Submitted(blocks[Len(blocks)].transactions)) = 2

====
